---- MODULE Spec2Model ----
(***************************************************************************)
(* A model of src/rdb_protocol/btree.cc: the per-shard document store      *)
(* (rdb_get, rdb_set, rdb_delete, rdb_erase_range) and the range scan      *)
(* (rdb_rget_slice with its traversal callback, transforms and terminals). *)
(***************************************************************************)
EXTENDS Integers, Sequences, FiniteSets, TLC

(***************************************************************************)
(* Bounds of the model.                                                    *)
(***************************************************************************)
\* Largest byte of a key; keys are the empty key and the one-byte keys.
MaxByte == 0
\* Largest attribute value of a document.
MaxVal == 0
\* Largest replication timestamp: the writes of one behaviour carry the
\* timestamps 0..MaxTime, in order.
MaxTime == 1
\* Largest maximum a range scan is called with.
MaxCount == 2
\* Largest number of steps of a scan's transform.
MaxPipeline == 2
\* The chunk-size budget of a scan's stream (scaled down to two estimates).
rget_max_chunk_size == 500
\* The most events a traversal hands the backfill callback in one call.
MaxEvents == 2

(***************************************************************************)
(* Keys (store_key_t), ordered as sized_strcmp orders them.                *)
(***************************************************************************)
Key == {<<>>} \cup {<<b>> : b \in 0..MaxByte}

MinLen(a, b) == IF Len(a) < Len(b) THEN Len(a) ELSE Len(b)

\* a < b on store_key_t: bytewise on the common prefix, then by length.
key_lt(a, b) ==
    \E i \in 1..(MinLen(a, b) + 1) :
        /\ \A j \in 1..(i - 1) : a[j] = b[j]
        /\ \/ i <= Len(a) /\ i <= Len(b) /\ a[i] < b[i]
           \/ i = Len(a) + 1 /\ i <= Len(b)

key_le(a, b) == a = b \/ key_lt(a, b)

\* store_key_t::decrement(): steps the key to its predecessor in the key
\* space and answers true, or answers false and leaves the key alone when
\* there is none (the empty key).
decrement(k) ==
    IF \E p \in Key : key_lt(p, k)
    THEN [ok |-> TRUE,
          key |-> CHOOSE p \in Key :
                      /\ key_lt(p, k)
                      /\ \A q \in Key : key_lt(q, k) => key_le(q, p)]
    ELSE [ok |-> FALSE, key |-> k]

\* key_range_t: left bound inclusive, right bound exclusive or unbounded.
KeyRange ==
    {r \in [left : Key, right : [unbounded : BOOLEAN, key : Key]] :
        /\ r.right.unbounded => r.right.key = <<>>
        /\ ~r.right.unbounded => key_le(r.left, r.right.key)}

\* key_range_t::contains_key
contains_key(r, k) ==
    /\ key_le(r.left, k)
    /\ r.right.unbounded \/ key_lt(k, r.right.key)

Timestamp == 0..MaxTime

(***************************************************************************)
(* Documents and the value codec.  A document is a JSON object that either *)
(* has no attribute (<<>>) or carries one attribute with value v (<<v>>).  *)
(***************************************************************************)
Document == {<<>>} \cup {<<v>> : v \in 0..MaxVal}

\* wm << data; send_write_message: a tag byte for the shape, then the value.
serialize(d) == <<Len(d)>> \o d

Corrupt == <<-1>>

\* deserialize: the document whose encoding the bytes are; res != 0 when the
\* bytes are the encoding of no document.
deserialize(bytes) ==
    IF \E d \in Document : serialize(d) = bytes
    THEN CHOOSE d \in Document : serialize(d) = bytes
    ELSE Corrupt

(***************************************************************************)
(* Values (rdb_value_t holding a blob reference) and blob regions.         *)
(***************************************************************************)
\* An empty scoped_malloc_t<rdb_value_t>: kv_location.value.has() is false.
NoValue == [has |-> FALSE, ref |-> 0, size |-> 0]

\* A bzero'd rdb_value_t: a blob reference of size 0 with no region.
ZeroValue == [has |-> TRUE, ref |-> 0, size |-> 0]

Zeros(n) == [i \in 1..n |-> 0]

\* blob_t::append_region: grows the referenced blob by n zero bytes,
\* allocating a region when the reference has none.
append_region(bl, value, n) ==
    IF value.ref = 0
    THEN [blobs |-> Append(bl, [data |-> Zeros(n), live |-> TRUE]),
          value |-> [has |-> TRUE, ref |-> Len(bl) + 1, size |-> n]]
    ELSE [blobs |-> [bl EXCEPT ![value.ref].data = @ \o Zeros(n)],
          value |-> [value EXCEPT !.size = @ + n]]

\* blob_t::write_from_string at offset 0.
write_from_string(bl, value, s) ==
    [bl EXCEPT ![value.ref].data =
        [i \in 1..Len(@) |-> IF i <= Len(s) THEN s[i] ELSE @[i]]]

\* blob_t::read_to_string(txn, 0, blob.valuesize())
read_to_string(bl, value) ==
    IF value.ref = 0 THEN <<>>
    ELSE LET data == bl[value.ref].data IN
         [i \in 1..value.size |-> IF i <= Len(data) THEN data[i] ELSE 0]

\* blob_t::clear: releases the region the reference points to.
blob_clear(bl, value) ==
    IF value.ref = 0 THEN bl
    ELSE [bl EXCEPT ![value.ref] = [data |-> <<>>, live |-> FALSE]]

(***************************************************************************)
(* State.                                                                  *)
(***************************************************************************)
VARIABLES
    leaf,       \* the btree's entries: key -> [value, recency, tomb]
    blobs,      \* the blob regions, by region number
    now,        \* the replication timestamp the next write is called with
    resp,       \* the last operation called and its response
    proc,       \* concurrent callers: each one's call, position and locals
    lock,       \* the lock on each key's location: its writer and readers
    rget,       \* the rdb_rget_slice call in flight and its traversal
    callback,   \* its rdb_rget_depth_first_traversal_callback_t
    backfill    \* the rdb_backfill call and what its callback was handed

store_vars == <<leaf, blobs>>
conc_vars == <<proc, lock>>
scan_vars == <<rget, callback>>
vars == <<leaf, blobs, now, resp, proc, lock, rget, callback, backfill>>

NoEntry == [value |-> NoValue, recency |-> -1, tomb |-> FALSE]

Resp(op, k, d, result) == [op |-> op, key |-> k, doc |-> d, result |-> result]

\* find_keyvalue_location_for_read / _for_write: the key's current value
\* and whether one was there.
find_keyvalue_location(lf, k) ==
    [value |-> lf[k].value, there_originally_was_value |-> lf[k].value.has]

\* apply_keyvalue_change: writes the location's value to the leaf under the
\* timestamp, or, with no value, removes an entry that was there and leaves
\* a deletion marker under the timestamp.
apply_keyvalue_change(lf, kv, k, t) ==
    IF kv.value.has
    THEN [lf EXCEPT ![k] = [value |-> kv.value, recency |-> t, tomb |-> FALSE]]
    ELSE IF kv.there_originally_was_value
         THEN [lf EXCEPT ![k] = [value |-> NoValue, recency |-> t, tomb |-> TRUE]]
         ELSE lf

(***************************************************************************)
(* The value codec and the point operations.                               *)
(***************************************************************************)
\* get_data: reads the whole blob and deserializes it.
get_data(bl, value) == deserialize(read_to_string(bl, value))

\* rdb_get's response: empty when the key has no value, else its document
\* (guarantee_err ends the call when the bytes are corrupt).
rdb_get_response(lf, bl, k) ==
    LET kv_location == find_keyvalue_location(lf, k) IN
    IF ~kv_location.value.has THEN Resp("get", k, <<>>, "none")
    ELSE LET data == get_data(bl, kv_location.value) IN
         IF data = Corrupt THEN Resp("get", k, <<>>, "corruption")
         ELSE Resp("get", k, data, "found")

rdb_get(k) ==
    /\ resp' = rdb_get_response(leaf, blobs, k)
    /\ UNCHANGED <<leaf, blobs, now, conc_vars, scan_vars, backfill>>

\* rdb_set with the new value starting as the location's old value instead
\* of a zeroed one.
rdb_set_write_reuse(bl, kv_location, data) ==
    LET new_value == IF kv_location.value.has THEN kv_location.value
                     ELSE ZeroValue
        stream == serialize(data)
        grown == append_region(bl, new_value, Len(stream))
    IN  [blobs |-> write_from_string(grown.blobs, grown.value, stream),
         value |-> grown.value]

\* rdb_set, lines 63-78: a zeroed new value, the document serialized into a
\* blob region appended to it.
rdb_set_write(bl, kv_location, data) ==
    LET new_value == ZeroValue
        stream == serialize(data)
        grown == append_region(bl, new_value, Len(stream))
    IN  [blobs |-> write_from_string(grown.blobs, grown.value, stream),
         value |-> grown.value]

rdb_set_response_swapped(already_existed) ==
    IF already_existed THEN "STORED" ELSE "DUPLICATE"

\* rdb_set, line 86.
rdb_set_response(already_existed) ==
    IF already_existed THEN "DUPLICATE" ELSE "STORED"

\* rdb_set, lines 59-86, on a store (lf, bl): the store and the response.
rdb_set_result(lf, bl, k, d, t) ==
    LET kv_location == find_keyvalue_location(lf, k)
        already_existed == kv_location.value.has
        written == rdb_set_write(bl, kv_location, d)
        \* reinterpret_swap: the location takes the new value
        swapped == [kv_location EXCEPT !.value = written.value]
    IN  [leaf |-> apply_keyvalue_change(lf, swapped, k, t),
         blobs |-> written.blobs,
         response |-> rdb_set_response(already_existed)]

rdb_set(k, d) ==
    /\ now <= MaxTime
    /\ LET r == rdb_set_result(leaf, blobs, k, d, now) IN
           /\ leaf' = r.leaf
           /\ blobs' = r.blobs
           /\ resp' = Resp("set", k, d, r.response)
    /\ now' = now + 1
    /\ UNCHANGED <<conc_vars, scan_vars, backfill>>

\* rdb_delete with the location's value not reset, so that the entry stays
\* in the leaf with its cleared blob.
rdb_delete_change_no_reset(lf, bl, kv_location, k, t) ==
    [blobs |-> blob_clear(bl, kv_location.value),
     leaf |-> apply_keyvalue_change(lf, kv_location, k, t)]

\* rdb_delete, lines 130-134: clear the blob, reset the value, apply.
rdb_delete_change(lf, bl, kv_location, k, t) ==
    LET reset == [kv_location EXCEPT !.value = NoValue] IN
    [blobs |-> blob_clear(bl, kv_location.value),
     leaf |-> apply_keyvalue_change(lf, reset, k, t)]

\* rdb_delete, line 137.
rdb_delete_response(exists) == IF exists THEN "DELETED" ELSE "MISSING"

\* rdb_delete, lines 126-137, on a store (lf, bl).
rdb_delete_result(lf, bl, k, t) ==
    LET kv_location == find_keyvalue_location(lf, k)
        exists == kv_location.value.has
        changed == rdb_delete_change(lf, bl, kv_location, k, t)
    IN  [leaf |-> IF exists THEN changed.leaf ELSE lf,
         blobs |-> IF exists THEN changed.blobs ELSE bl,
         response |-> rdb_delete_response(exists)]

rdb_delete(k) ==
    /\ now <= MaxTime
    /\ LET r == rdb_delete_result(leaf, blobs, k, now) IN
           /\ leaf' = r.leaf
           /\ blobs' = r.blobs
           /\ resp' = Resp("delete", k, <<>>, r.response)
    /\ now' = now + 1
    /\ UNCHANGED <<conc_vars, scan_vars, backfill>>

(***************************************************************************)
(* Range erase.                                                            *)
(***************************************************************************)
\* The value deleter handed to the generic erase, lines 148-153.
delete_value(bl, value) == blob_clear(bl, value)

RECURSIVE delete_values(_, _, _)
delete_values(bl, lf, ks) ==
    IF ks = {} THEN bl
    ELSE LET k == CHOOSE x \in ks : TRUE IN
         delete_values(delete_value(bl, lf[k].value), lf, ks \ {k})

\* btree_erase_range_generic: removes every entry the tester admits between
\* the exclusive left key and the inclusive right key (each optional),
\* handing its value to the deleter first.
btree_erase_range_generic(lf, bl, tester, left_supplied, left_exclusive, right_supplied, right_inclusive) ==
    LET erased == {k \in Key :
                     /\ lf[k].value.has
                     /\ k \in tester
                     /\ left_supplied => key_lt(left_exclusive, k)
                     /\ right_supplied => key_le(k, right_inclusive)}
    IN  [blobs |-> delete_values(bl, lf, erased),
         leaf |-> [k \in Key |-> IF k \in erased THEN NoEntry ELSE lf[k]]]

\* rdb_erase_range on explicit bounds, lines 140-159.
rdb_erase_range_keys(lf, bl, tester, left_key_supplied, left_key_exclusive, right_key_supplied, right_key_inclusive) ==
    btree_erase_range_generic(lf, bl, tester,
                              left_key_supplied, left_key_exclusive,
                              right_key_supplied, right_key_inclusive)

\* rdb_erase_range on a key_range_t, lines 161-173.
rdb_erase_range_result(lf, bl, tester, keys) ==
    LET left_dec == decrement(keys.left)
        left_exclusive == left_dec.key
        left_key_supplied == left_dec.ok
        right_key_supplied == ~keys.right.unbounded
        \* the answer of right_inclusive.decrement() is dropped
        right_inclusive == IF right_key_supplied
                           THEN decrement(keys.right.key).key
                           ELSE keys.right.key
    IN  rdb_erase_range_keys(lf, bl, tester, left_key_supplied, left_exclusive,
                             right_key_supplied, right_inclusive)

rdb_erase_range(tester, keys) ==
    /\ LET erased == rdb_erase_range_result(leaf, blobs, tester, keys) IN
           leaf' = erased.leaf /\ blobs' = erased.blobs
    /\ resp' = Resp("erase_range", <<>>, <<>>, "erased")
    /\ UNCHANGED <<now, conc_vars, scan_vars, backfill>>

(***************************************************************************)
(* Range scans: the response, the transforms and the terminals.            *)
(***************************************************************************)
\* rget_read_response_t::result_t, a variant over stream_t, groups_t,
\* atom_t, length_t and inserted_t; each constructor gives the empty value.
EmptyGroups == [g \in {} |-> <<>>]
NullAtom == [null |-> TRUE, val |-> <<>>]

Result(type) ==
    [type |-> type, stream |-> <<>>, groups |-> EmptyGroups,
     atom |-> NullAtom, length |-> 0]

\* A default-constructed rget_read_response_t: the variant holds its first
\* alternative, an empty stream_t.
NewResponse ==
    [result |-> Result("stream"), truncated |-> FALSE,
     last_considered_key |-> <<>>]

\* The transform steps and terminals a query can carry; the predicate,
\* mappings and reduction bodies are the evaluator's:
\*   filter "has":       the document has the attribute
\*   map "drop":         the document without its attribute
\*   concatmap "attrs":  no document for an empty one, else the document
\*                       followed by the empty document
\*   reduce "append":    var1 with var2 appended (reads both variables)
\*   reduce "second":    var2 (never reads var1)
\*   grouped map reduce: grouped by the document itself, mapped to itself,
\*                       reduced from the empty array by appending
TransformStep ==
    {[kind |-> "filter", arg |-> "has"], [kind |-> "map", arg |-> "drop"],
     [kind |-> "concatmap", arg |-> "attrs"]}

RECURSIVE SeqsUpTo(_, _)
SeqsUpTo(S, n) ==
    IF n = 0 THEN {<<>>}
    ELSE LET shorter == SeqsUpTo(S, n - 1) IN
         shorter \cup {Append(q, x) : q \in shorter, x \in S}

Transform == SeqsUpTo(TransformStep, MaxPipeline)

NoTerminal == [kind |-> "none", body |-> ""]

Terminal ==
    {[kind |-> "gmr", body |-> "append"], [kind |-> "reduce", body |-> "append"],
     [kind |-> "reduce", body |-> "second"], [kind |-> "length", body |-> ""],
     [kind |-> "foreach", body |-> ""]}

FullRange == [left |-> <<>>, right |-> [unbounded |-> TRUE, key |-> <<>>]]

IdleRget == [pc |-> "idle", range |-> FullRange, visited |-> <<>>,
             continue |-> TRUE, response |-> NewResponse]

\* No backfill called yet: nothing handed to the rdb_backfill_callback_t.
NoEvent == [type |-> "none", key |-> <<>>, value |-> <<>>, recency |-> 0,
            range |-> FullRange]

IdleBackfill == [pc |-> "idle", range |-> FullRange, since |-> 0,
                 events |-> <<>>, handed |-> NoEvent]

\* The callback as its constructor leaves it, lines 360-366.
NewCallback(max, transform, terminal) ==
    [maximum |-> max, cumulative_size |-> 0, transform |-> transform,
     terminal |-> terminal, response |-> NewResponse, env |-> <<>>]

(***************************************************************************)
(* The store: every operation called atomically, in any order.             *)
(***************************************************************************)
\* The callers of the concurrent writes, one per timestamp.
Proc == 1..(MaxTime + 1)

Idle == [pc |-> "idle", op |-> "none", key |-> <<>>, doc |-> <<>>, t |-> 0,
         kv |-> [value |-> NoValue, there_originally_was_value |-> FALSE],
         result |-> "none"]

Init ==
    /\ leaf = [k \in Key |-> NoEntry]
    /\ blobs = <<>>
    /\ now = 0
    /\ resp = Resp("none", <<>>, <<>>, "none")
    /\ proc = [p \in Proc |-> Idle]
    /\ lock = [k \in Key |-> [writer |-> 0, readers |-> {}]]
    /\ rget = IdleRget
    /\ callback = NewCallback(0, <<>>, NoTerminal)
    /\ backfill = IdleBackfill

Next ==
    \/ \E k \in Key : rdb_get(k)
    \/ \E k \in Key, d \in Document : rdb_set(k, d)
    \/ \E k \in Key : rdb_delete(k)
    \/ \E T \in SUBSET Key, r \in KeyRange : rdb_erase_range(T, r)

Spec == Init /\ [][Next]_vars

\* The answer a get of k would give in the current state.
Got(k) == rdb_get_response(leaf, blobs, k)

\* C1: after set(k, d, t), from any store state, get(k) answers exactly d.
C1_RoundTrip ==
    resp.op = "set" => Got(resp.key) = Resp("get", resp.key, resp.doc, "found")

\* A set has put the empty document where a longer one was stored.
C1_Witness ==
    /\ resp.op = "set" /\ resp.result = "DUPLICATE" /\ resp.doc = <<>>
    /\ \E i \in 1..Len(blobs) :
           /\ blobs[i].live /\ Len(blobs[i].data) > 1
           /\ \A k \in Key : leaf[k].value.ref # i

\* C2: set answers DUPLICATE iff the key held a value just before the call,
\* STORED otherwise, and the value is written in both cases.
C2_SetOutcome ==
    [][resp'.op = "set" /\ now' # now =>
          /\ resp'.result = (IF leaf[resp'.key].value.has
                             THEN "DUPLICATE" ELSE "STORED")
          /\ rdb_get_response(leaf', blobs', resp'.key)
                 = Resp("get", resp'.key, resp'.doc, "found")]_vars

C2_Witness ==
    resp.op = "set" /\ resp.result = "DUPLICATE" /\ Got(resp.key).doc = <<0>>

\* C3: delete answers DELETED iff the key was present and MISSING iff it was
\* absent; afterwards get(k) answers none; a delete of an absent key changes
\* nothing in the store.
C3_Delete ==
    [][resp'.op = "delete" /\ now' # now =>
          /\ resp'.result = (IF leaf[resp'.key].value.has
                             THEN "DELETED" ELSE "MISSING")
          /\ rdb_get_response(leaf', blobs', resp'.key).result = "none"
          /\ resp'.result = "MISSING" => UNCHANGED store_vars]_vars

\* A delete of an absent key has been answered while another key held a
\* value.
C3_Witness ==
    /\ resp.op = "delete" /\ resp.result = "MISSING"
    /\ \E k \in Key : leaf[k].value.has

\* The entry of k and the bytes its value refers to.
Stored(lf, bl, k) == <<lf[k], read_to_string(bl, lf[k].value)>>

\* C4: after erase_range(R, T) every key in R that T admits is absent, and
\* every key outside R or rejected by T keeps its entry and its value.
C4_EraseRange ==
    [][\A T \in SUBSET Key, r \in KeyRange :
          rdb_erase_range(T, r) =>
              \A k \in Key :
                  IF contains_key(r, k) /\ k \in T
                  THEN ~leaf'[k].value.has
                  ELSE Stored(leaf', blobs', k) = Stored(leaf, blobs, k)]_vars

\* The same for the ranges whose right bound is unbounded or has a
\* predecessor.
C4_EraseRangeWithPredecessor ==
    [][\A T \in SUBSET Key, r \in KeyRange :
          rdb_erase_range(T, r) /\ (r.right.unbounded \/ r.right.key # <<>>) =>
              \A k \in Key :
                  IF contains_key(r, k) /\ k \in T
                  THEN ~leaf'[k].value.has
                  ELSE Stored(leaf', blobs', k) = Stored(leaf, blobs, k)]_vars

(***************************************************************************)
(* Concurrent point mutations.  Each caller runs rdb_set or rdb_delete     *)
(* step by step: the locked lookup, the blob write or clear, the change    *)
(* applied to the leaf; the location's lock is released when the function  *)
(* returns and kv_location goes out of scope.                              *)
(***************************************************************************)
\* Whether caller p may take the lock of k's location in the mode.
lock_free(lk, k, mode) ==
    IF mode = "write" THEN lk[k].writer = 0 /\ lk[k].readers = {}
    ELSE lk[k].writer = 0

lock_acquire(lk, p, k, mode) ==
    IF mode = "write" THEN [lk EXCEPT ![k].writer = p]
    ELSE [lk EXCEPT ![k].readers = @ \cup {p}]

lock_release(lk, p, k) ==
    [lk EXCEPT ![k] = [writer |-> IF @.writer = p THEN 0 ELSE @.writer,
                       readers |-> @.readers \ {p}]]

rdb_set_find_mode_read == "read"

\* rdb_set, line 60: find_keyvalue_location_for_write.
rdb_set_find_mode == "write"

\* rdb_delete, line 127: find_keyvalue_location_for_write.
rdb_delete_find_mode == "write"

\* A caller enters rdb_set or rdb_delete with the current timestamp.
call_set(p, k, d) ==
    /\ proc[p].pc = "idle" /\ now <= MaxTime
    /\ proc' = [proc EXCEPT ![p] = [@ EXCEPT !.pc = "set_find", !.op = "set",
                                       !.key = k, !.doc = d, !.t = now]]
    /\ now' = now + 1
    /\ UNCHANGED <<leaf, blobs, resp, lock, scan_vars, backfill>>

call_delete(p, k) ==
    /\ proc[p].pc = "idle" /\ now <= MaxTime
    /\ proc' = [proc EXCEPT ![p] = [@ EXCEPT !.pc = "delete_find",
                                       !.op = "delete", !.key = k, !.t = now]]
    /\ now' = now + 1
    /\ UNCHANGED <<leaf, blobs, resp, lock, scan_vars, backfill>>

\* rdb_set, lines 59-61.
set_find(p) ==
    /\ proc[p].pc = "set_find"
    /\ lock_free(lock, proc[p].key, rdb_set_find_mode)
    /\ lock' = lock_acquire(lock, p, proc[p].key, rdb_set_find_mode)
    /\ proc' = [proc EXCEPT ![p].pc = "set_write",
                            ![p].kv = find_keyvalue_location(leaf, proc[p].key)]
    /\ UNCHANGED <<leaf, blobs, now, resp, scan_vars, backfill>>

\* rdb_set, lines 63-81: the blob is written and the location takes the
\* new value.
set_write(p) ==
    /\ proc[p].pc = "set_write"
    /\ LET written == rdb_set_write(blobs, proc[p].kv, proc[p].doc) IN
           /\ blobs' = written.blobs
           /\ proc' = [proc EXCEPT
                  ![p].pc = "set_apply",
                  ![p].result = rdb_set_response(proc[p].kv.value.has),
                  ![p].kv.value = written.value]
    /\ UNCHANGED <<leaf, now, resp, lock, scan_vars, backfill>>

\* rdb_set, lines 82-86: the change is applied and the function returns.
set_apply(p) ==
    /\ proc[p].pc = "set_apply"
    /\ leaf' = apply_keyvalue_change(leaf, proc[p].kv, proc[p].key, proc[p].t)
    /\ lock' = lock_release(lock, p, proc[p].key)
    /\ proc' = [proc EXCEPT ![p].pc = "done"]
    /\ UNCHANGED <<blobs, now, resp, scan_vars, backfill>>

\* rdb_delete, lines 126-128, and line 137 when the key is absent.
delete_find(p) ==
    /\ proc[p].pc = "delete_find"
    /\ lock_free(lock, proc[p].key, rdb_delete_find_mode)
    /\ LET kv_location == find_keyvalue_location(leaf, proc[p].key)
           exists == kv_location.value.has
       IN  /\ proc' = [proc EXCEPT
                  ![p].pc = IF exists THEN "delete_clear" ELSE "done",
                  ![p].kv = kv_location,
                  ![p].result = rdb_delete_response(exists)]
           /\ lock' = IF exists
                      THEN lock_acquire(lock, p, proc[p].key, rdb_delete_find_mode)
                      ELSE lock
    /\ UNCHANGED <<leaf, blobs, now, resp, scan_vars, backfill>>

\* rdb_delete, lines 130-132.
delete_clear(p) ==
    /\ proc[p].pc = "delete_clear"
    /\ blobs' = blob_clear(blobs, proc[p].kv.value)
    /\ proc' = [proc EXCEPT ![p].pc = "delete_apply", ![p].kv.value = NoValue]
    /\ UNCHANGED <<leaf, now, resp, lock, scan_vars, backfill>>

\* rdb_delete, lines 133-137.
delete_apply(p) ==
    /\ proc[p].pc = "delete_apply"
    /\ leaf' = apply_keyvalue_change(leaf, proc[p].kv, proc[p].key, proc[p].t)
    /\ lock' = lock_release(lock, p, proc[p].key)
    /\ proc' = [proc EXCEPT ![p].pc = "done"]
    /\ UNCHANGED <<blobs, now, resp, scan_vars, backfill>>

NextConc ==
    \/ \E p \in Proc, k \in Key, d \in Document : call_set(p, k, d)
    \/ \E p \in Proc, k \in Key : call_delete(p, k)
    \/ \E p \in Proc : set_find(p)
    \/ \E p \in Proc : set_write(p)
    \/ \E p \in Proc : set_apply(p)
    \/ \E p \in Proc : delete_find(p)
    \/ \E p \in Proc : delete_clear(p)
    \/ \E p \in Proc : delete_apply(p)

SpecConc == Init /\ [][NextConc]_vars

\* What the callers can observe of a store: each key's document, recency
\* and deletion marker.
View(lf, bl) ==
    [k \in Key |-> <<rdb_get_response(lf, bl, k), lf[k].recency, lf[k].tomb>>]

\* The calls of the callers in `order`, run one after the other on the
\* store st: the final store and each caller's outcome.
RECURSIVE RunInOrder(_, _, _)
RunInOrder(st, order, i) ==
    IF i > Len(order) THEN st
    ELSE LET p == order[i]
             r == IF proc[p].op = "set"
                  THEN rdb_set_result(st.leaf, st.blobs, proc[p].key,
                                      proc[p].doc, proc[p].t)
                  ELSE rdb_delete_result(st.leaf, st.blobs, proc[p].key,
                                         proc[p].t)
         IN  RunInOrder([leaf |-> r.leaf, blobs |-> r.blobs,
                         results |-> [st.results EXCEPT ![p] = r.response]],
                        order, i + 1)

Orders(S) ==
    {o \in [1..Cardinality(S) -> S] : \A i, j \in 1..Cardinality(S) :
                                          o[i] = o[j] => i = j}

\* The steps between the locked lookup and the return.
InMutation(p) ==
    proc[p].pc \in {"set_write", "set_apply", "delete_clear", "delete_apply"}

\* C5: mutations of the same key never overlap, and once all calls have
\* returned, the store and the outcomes are those of the calls run one
\* after the other in some order.
C5_Serialized ==
    /\ \A p, q \in Proc :
           p # q /\ InMutation(p) /\ InMutation(q) => proc[p].key # proc[q].key
    /\ (\A p \in Proc : proc[p].pc \in {"idle", "done"}) =>
           LET done == {p \in Proc : proc[p].pc = "done"}
               start == [leaf |-> [k \in Key |-> NoEntry], blobs |-> <<>>,
                         results |-> [p \in Proc |-> "none"]]
           IN  \E o \in Orders(done) :
                   LET end == RunInOrder(start, o, 1) IN
                       /\ View(end.leaf, end.blobs) = View(leaf, blobs)
                       /\ \A p \in done : end.results[p] = proc[p].result

\* Two callers have mutated the same key, one of them after waiting for the
\* other's lock.
C5_Witness ==
    /\ \A p \in Proc : proc[p].pc = "done"
    /\ \E p, q \in Proc :
           /\ p # q /\ proc[p].key = proc[q].key
           /\ proc[p].result = "STORED" /\ proc[q].result = "DELETED"
           /\ proc[p].t > proc[q].t

(***************************************************************************)
(* The range scan: rdb_rget_slice and its traversal callback.              *)
(***************************************************************************)
\* estimate_rget_response_size, lines 175-180.
estimate_rget_response_size(json) == 250

\* A default-constructed key_range_t: the range that contains no key.
DefaultKeyRange == [left |-> <<>>, right |-> [unbounded |-> FALSE, key |-> <<>>]]

\* key_range_t(left_mode, left, right_mode, right) with each mode closed or
\* none: a closed right bound is the right key's successor, exclusive.
key_range_closed(left_closed, l, right_closed, r) ==
    [left |-> IF left_closed THEN l ELSE <<>>,
     right |-> IF right_closed
               THEN [unbounded |-> FALSE, key |-> Append(r, 0)]
               ELSE [unbounded |-> TRUE, key |-> <<>>]]

\* lowerbound->Print() and cJSON_print_std_string of an attribute's value: the key
\* of one byte.
cJSON_print_std_string(v) == <<v>>

\* GetObjectItem(attrname): the document's attribute, if it has one.
GetObjectItem(json) ==
    IF json = <<>> THEN [found |-> FALSE, item |-> 0]
    ELSE [found |-> TRUE, item |-> json[1]]

\* transform_visitor_t, lines 191-245: the documents one step puts out for
\* one document.
transform_visitor(step, json) ==
    CASE step.kind = "filter" ->
             IF json # <<>> THEN <<json>> ELSE <<>>
      [] step.kind = "map" -> << <<>> >>
      [] step.kind = "concatmap" ->
             IF json = <<>> THEN <<>> ELSE <<json, <<>>>>
      [] step.kind = "range" ->
             LET key_range ==
                     IF step.has_lowerbound /\ step.has_upperbound
                     THEN key_range_closed(TRUE, cJSON_print_std_string(step.lowerbound),
                                           TRUE, cJSON_print_std_string(step.upperbound))
                     ELSE IF step.has_lowerbound
                     THEN key_range_closed(TRUE, cJSON_print_std_string(step.lowerbound),
                                           FALSE, <<>>)
                     ELSE IF step.has_upperbound
                     THEN key_range_closed(FALSE, <<>>,
                                           TRUE, cJSON_print_std_string(step.upperbound))
                     ELSE DefaultKeyRange
                 val == GetObjectItem(json)
             IN  IF val.found /\ contains_key(key_range, cJSON_print_std_string(val.item))
                 THEN <<json>> ELSE <<>>

\* handle_pair, lines 385-389: one step over the whole list, in order.
RECURSIVE apply_step(_, _, _)
apply_step(step, data, i) ==
    IF i > Len(data) THEN <<>>
    ELSE transform_visitor(step, data[i]) \o apply_step(step, data, i + 1)

\* The steps taken from the last to the first.
RECURSIVE apply_transform_reversed(_, _, _)
apply_transform_reversed(transform, data, i) ==
    IF i > Len(transform) THEN data
    ELSE apply_transform_reversed(transform,
             apply_step(transform[Len(transform) + 1 - i], data, 1), i + 1)

\* handle_pair, lines 380-392: the steps in their order, each on the
\* output of the one before.
RECURSIVE apply_transform(_, _, _)
apply_transform(transform, data, i) ==
    IF i > Len(transform) THEN data
    ELSE apply_transform(transform, apply_step(transform[i], data, 1), i + 1)

\* terminal_initializer_visitor_t, lines 254-269.
terminal_initializer_visitor(terminal) ==
    CASE terminal.kind = "gmr" -> Result("groups")
      [] terminal.kind = "reduce" -> Result("atom")
      [] terminal.kind = "length" -> Result("length")
      [] terminal.kind = "foreach" -> Result("inserted")

\* get_with_default on groups_t.
get_with_default(groups, g, default) ==
    IF g \in DOMAIN groups THEN groups[g] ELSE default

\* The evaluator on a reduction body with var1 and var2 bound.
eval_body(body, var1, var2) ==
    IF body = "append" THEN Append(var1, var2) ELSE var2

\* terminal_visitor_t, lines 280-349, on one document: the result, the
\* environment the for-each writes through, and whether the call died on
\* reading a null accumulator.
terminal_visitor(terminal, json, st) ==
    CASE terminal.kind = "gmr" ->
             LET grouping == json
                 json_cpy == json
                 base == <<>>
                 var1 == get_with_default(st.result.groups, grouping, base)
                 new == eval_body(terminal.body, var1, json_cpy)
             IN  [st EXCEPT !.result.groups =
                     [g \in DOMAIN @ \cup {grouping} |->
                         IF g = grouping THEN new ELSE @[g]]]
      [] terminal.kind = "reduce" ->
             IF terminal.body = "append" /\ st.result.atom.null
             THEN [st EXCEPT !.crashed = TRUE]
             ELSE [st EXCEPT !.result.atom =
                     [null |-> FALSE,
                      val |-> eval_body(terminal.body, @.val, json)]]
      [] terminal.kind = "length" ->
             [st EXCEPT !.result.length = @ + 1]
      [] terminal.kind = "foreach" ->
             [st EXCEPT !.env = Append(@, json)]

\* handle_pair, lines 404-408: the terminal on every document of the list.
RECURSIVE apply_terminal(_, _, _, _)
apply_terminal(terminal, data, i, st) ==
    IF i > Len(data) \/ st.crashed THEN st
    ELSE apply_terminal(terminal, data, i + 1,
                        terminal_visitor(terminal, data[i], st))

\* The entries of the range the traversal has not handed over yet.
Remaining(r) ==
    {k \in Key : /\ leaf[k].value.has
                 /\ contains_key(r.range, k)
                 /\ \A i \in 1..Len(r.visited) : r.visited[i] # k}

\* btree_depth_first_traversal: the next entry in ascending key order.
NextEntry(r) ==
    CHOOSE k \in Remaining(r) : \A q \in Remaining(r) : key_le(k, q)

\* rdb_rget_slice, line 426: the callback is constructed and the traversal
\* starts.
rdb_rget_slice(range, maximum, transform, terminal) ==
    /\ rget.pc = "idle"
    /\ rget' = [IdleRget EXCEPT !.pc = "traversal", !.range = range]
    /\ callback' = NewCallback(maximum, transform, terminal)
    /\ UNCHANGED <<leaf, blobs, now, resp, conc_vars, backfill>>

\* handle_pair, lines 394-401, reinitializing nothing: the result after the
\* list is appended to the stream.
handle_pair_stream(cb, data) ==
    [cb EXCEPT !.response.result.stream = @ \o data,
               !.cumulative_size = @ + estimate_rget_response_size(data)]

\* handle_pair, line 401.
handle_pair_continue(cb) ==
    /\ Len(cb.response.result.stream) < cb.maximum
    /\ cb.cumulative_size < rget_max_chunk_size

\* handle_pair, lines 402-410.
handle_pair_terminal(cb, data) ==
    LET initialized == terminal_initializer_visitor(cb.terminal)
        st == apply_terminal(cb.terminal, data, 1,
                  [result |-> initialized, env |-> cb.env, crashed |-> FALSE])
    IN  [cb |-> [cb EXCEPT !.response.result = st.result, !.env = st.env],
         crashed |-> st.crashed]

\* The comparison of line 369 turned around.
handle_pair_key_reversed(cb, store_key) ==
    IF key_lt(store_key, cb.response.last_considered_key)
    THEN [cb EXCEPT !.response.last_considered_key = store_key]
    ELSE cb

\* handle_pair, lines 367-371.
handle_pair_key(cb, store_key) ==
    IF key_lt(cb.response.last_considered_key, store_key)
    THEN [cb EXCEPT !.response.last_considered_key = store_key]
    ELSE cb

\* handle_pair, lines 367-411, on the next entry of the traversal.  Reading
\* stream->back() of an empty stream is undefined: the call goes on or dies.
handle_pair ==
    /\ rget.pc = "traversal" /\ rget.continue /\ Remaining(rget) # {}
    /\ LET key == NextEntry(rget)
           cb1 == handle_pair_key(callback, key)
           data == apply_transform(cb1.transform,
                                   <<get_data(blobs, leaf[key].value)>>, 1)
       IN  IF cb1.terminal = NoTerminal
           THEN LET cb2 == handle_pair_stream(cb1, data) IN
                \E died \in IF cb2.response.result.stream = <<>>
                            THEN BOOLEAN ELSE {FALSE} :
                    /\ callback' = IF died THEN cb1 ELSE cb2
                    /\ rget' = [rget EXCEPT
                           !.visited = Append(@, key),
                           !.pc = IF died THEN "crashed" ELSE @,
                           !.continue = ~died /\ handle_pair_continue(cb2)]
           ELSE LET t == handle_pair_terminal(cb1, data) IN
                /\ callback' = t.cb
                /\ rget' = [rget EXCEPT
                       !.visited = Append(@, key),
                       !.pc = IF t.crashed THEN "crashed" ELSE @,
                       !.continue = ~t.crashed]
    /\ UNCHANGED <<leaf, blobs, now, resp, conc_vars, backfill>>

rget_truncated_strict(cb) == cb.cumulative_size > rget_max_chunk_size

\* rdb_rget_slice, lines 428-432.
rget_truncated(cb) == cb.cumulative_size >= rget_max_chunk_size

\* rdb_rget_slice, lines 427-433: the traversal is over, the response is
\* returned.
rdb_rget_slice_return ==
    /\ rget.pc = "traversal"
    /\ ~rget.continue \/ Remaining(rget) = {}
    /\ rget' = [rget EXCEPT
           !.pc = "done",
           !.response = [callback.response EXCEPT
                            !.truncated = rget_truncated(callback)]]
    /\ UNCHANGED <<leaf, blobs, now, resp, conc_vars, callback, backfill>>

\* A store in which key k holds document f[k], written by sets in key order.
RECURSIVE StoreOf(_, _, _)
StoreOf(f, ks, st) ==
    IF ks = {} THEN st
    ELSE LET k == CHOOSE x \in ks : \A q \in ks : key_le(x, q)
             r == rdb_set_result(st.leaf, st.blobs, k, f[k], 0)
         IN  StoreOf(f, ks \ {k}, [leaf |-> r.leaf, blobs |-> r.blobs])

InitRget ==
    /\ \E f \in [Key -> Document] :
           LET st == StoreOf(f, Key, [leaf |-> [k \in Key |-> NoEntry],
                                      blobs |-> <<>>])
           IN  leaf = st.leaf /\ blobs = st.blobs
    /\ now = 0
    /\ resp = Resp("none", <<>>, <<>>, "none")
    /\ proc = [p \in Proc |-> Idle]
    /\ lock = [k \in Key |-> [writer |-> 0, readers |-> {}]]
    /\ rget = IdleRget
    /\ callback = NewCallback(0, <<>>, NoTerminal)
    /\ backfill = IdleBackfill

NextRget ==
    \/ /\ rget.pc = "idle"
       /\ \E r \in KeyRange, m \in 0..MaxCount, tr \in Transform,
             te \in Terminal \cup {NoTerminal} : rdb_rget_slice(r, m, tr, te)
    \/ handle_pair
    \/ rdb_rget_slice_return

SpecRget == InitRget /\ [][NextRget]_vars

\* The documents the transform puts out for the entry of key k.
Emitted(k) ==
    apply_transform(callback.transform, <<get_data(blobs, leaf[k].value)>>, 1)

\* The documents of the whole scan so far, in scan order.
RECURSIVE EmittedUpTo(_)
EmittedUpTo(n) ==
    IF n = 0 THEN <<>> ELSE EmittedUpTo(n - 1) \o Emitted(rget.visited[n])

ScanDocs == EmittedUpTo(Len(rget.visited))

\* C6: without transform and terminal, the stream returned is no longer
\* than the maximum.
C6_StreamWithinMaximum ==
    rget.pc = "done" /\ callback.transform = <<>>
        /\ callback.terminal = NoTerminal
    => Len(rget.response.result.stream) <= callback.maximum

\* The same for the maxima of at least 1.
C6_StreamWithinPositiveMaximum ==
    rget.pc = "done" /\ callback.transform = <<>>
        /\ callback.terminal = NoTerminal /\ callback.maximum >= 1
    => Len(rget.response.result.stream) <= callback.maximum

\* C7: when the scan has returned, truncated is true iff the running size
\* estimate has reached the chunk budget; a scan stopped by the maximum
\* alone reports truncated = false.
C7_Truncated ==
    rget.pc = "done" =>
        /\ rget.response.truncated
               <=> callback.cumulative_size >= rget_max_chunk_size
        /\ (/\ callback.terminal = NoTerminal
            /\ Len(rget.response.result.stream) >= callback.maximum
            /\ callback.cumulative_size < rget_max_chunk_size)
           => ~rget.response.truncated

\* A scan has stopped at its maximum with entries left and below the
\* budget.
C7_Witness ==
    /\ rget.pc = "done" /\ callback.terminal = NoTerminal
    /\ callback.maximum >= 1
    /\ Len(rget.response.result.stream) = callback.maximum
    /\ Remaining(rget) # {}
    /\ callback.cumulative_size < rget_max_chunk_size
    /\ ~rget.response.truncated

\* A scan has run into the budget.
C7_WitnessTruncated ==
    /\ rget.pc = "done" /\ callback.terminal = NoTerminal
    /\ rget.response.truncated

\* C8: with the Count terminal the integer returned is the number of
\* documents the transform put out over the whole scan.
C8_Count ==
    rget.pc = "done" /\ callback.terminal.kind = "length"
    => rget.response.result.length = Len(ScanDocs)

\* The fold of a reduction body over a sequence of values.
RECURSIVE FoldBody(_, _, _, _)
FoldBody(body, acc, vals, i) ==
    IF i > Len(vals) THEN acc
    ELSE FoldBody(body, eval_body(body, acc, vals[i]), vals, i + 1)

\* The documents of a sequence that are grouped under g, in order.
RECURSIVE GroupOf(_, _, _)
GroupOf(g, docs, i) ==
    IF i > Len(docs) THEN <<>>
    ELSE (IF docs[i] = g THEN <<docs[i]>> ELSE <<>>) \o GroupOf(g, docs, i + 1)

\* C9: with the GroupedReduce terminal every group's accumulator is the
\* left fold of the body over the group's documents of the whole scan, in
\* scan order, from the evaluated base.
C9_GroupedReduce ==
    rget.pc = "done" /\ callback.terminal.kind = "gmr"
    => LET docs == ScanDocs
           groups == {docs[i] : i \in 1..Len(docs)}
       IN  rget.response.result.groups =
               [g \in groups |->
                   FoldBody(callback.terminal.body, <<>>, GroupOf(g, docs, 1), 1)]

\* The variant of the result each terminal calls for.
ResultTypeOf(terminal) ==
    CASE terminal.kind = "gmr" -> "groups"
      [] terminal.kind = "reduce" -> "atom"
      [] terminal.kind = "length" -> "length"
      [] terminal.kind = "foreach" -> "inserted"

\* C10: with a terminal the result returned has the terminal's variant,
\* also over a range without entries, and once a document has been folded
\* into it the result is never set back to the empty value.
C10_ResultTypeFixedOnce ==
    [][callback.terminal # NoTerminal /\ rget'.pc # "crashed" =>
          /\ rget'.pc = "done" =>
                 rget'.response.result.type = ResultTypeOf(callback.terminal)
          /\ (rget.pc = "traversal" /\ Len(rget'.visited) > Len(rget.visited)
              /\ callback.response.result.type = ResultTypeOf(callback.terminal))
             => callback'.response.result =
                    apply_terminal(callback.terminal,
                                   Emitted(rget'.visited[Len(rget'.visited)]), 1,
                                   [result |-> callback.response.result,
                                    env |-> callback.env,
                                    crashed |-> FALSE]).result]_vars

\* C10, the range without entries alone.
C10_ResultTypeOnEmptyRange ==
    rget.pc = "done" /\ callback.terminal # NoTerminal /\ rget.visited = <<>>
    => rget.response.result.type = ResultTypeOf(callback.terminal)

\* C10, the reinitialization alone: the count never goes down.
C10_CountNeverReset ==
    [][callback.terminal.kind = "length" /\ rget.pc = "traversal"
       => callback'.response.result.length >= callback.response.result.length]_vars

(***************************************************************************)
(* The pipeline.                                                           *)
(***************************************************************************)
\* The concatenation of the first n sequences of a sequence of sequences.
RECURSIVE ConcatAll(_, _)
ConcatAll(seqs, n) ==
    IF n = 0 THEN <<>> ELSE ConcatAll(seqs, n - 1) \o seqs[n]

\* What the first n steps of a pipeline put out for one document: step n
\* on every document the first n - 1 steps put out, in their order.
RECURSIVE PipelineOutput(_, _, _)
PipelineOutput(transform, n, doc) ==
    IF n = 0 THEN <<doc>>
    ELSE LET prev == PipelineOutput(transform, n - 1, doc) IN
         ConcatAll([i \in 1..Len(prev) |-> transform_visitor(transform[n], prev[i])],
                   Len(prev))

FilterHas == [kind |-> "filter", arg |-> "has"]
MapDrop == [kind |-> "map", arg |-> "drop"]

\* C11: for each visited entry the documents put out are those of the steps
\* applied in declared order, each step on every output document of the
\* one before, in order (seen in the stream of a scan without terminal);
\* a filter before a map and the same filter after it differ where the
\* predicate holds on the documents before the map only.
C11_PipelineOrder ==
    [][(/\ rget.pc = "traversal" /\ rget'.pc = "traversal"
        /\ Len(rget'.visited) > Len(rget.visited)
        /\ callback.terminal = NoTerminal)
       => LET key == rget'.visited[Len(rget'.visited)]
              doc == get_data(blobs, leaf[key].value)
          IN  /\ callback'.response.result.stream =
                     callback.response.result.stream
                         \o PipelineOutput(callback.transform,
                                           Len(callback.transform), doc)
              /\ doc # <<>> =>
                     apply_transform(<<FilterHas, MapDrop>>, <<doc>>, 1)
                         # apply_transform(<<MapDrop, FilterHas>>, <<doc>>, 1)]_vars

\* A scan without terminal has put a concatmap's two documents through a
\* second step.
C11_Witness ==
    /\ rget.pc = "traversal" /\ callback.terminal = NoTerminal
    /\ Len(callback.transform) = 2 /\ callback.transform[1].kind = "concatmap"
    /\ Len(rget.visited) = 1
    /\ Len(callback.response.result.stream) = 2

(***************************************************************************)
(* Backfill: rdb_backfill and agnostic_rdb_backfill_callback_t.            *)
(***************************************************************************)
\* key_range_t::is_empty and key_range_t::is_superset, on the bounds.
is_empty(r) == ~r.right.unbounded /\ key_le(r.right.key, r.left)

is_superset(kr, range) ==
    \/ is_empty(range)
    \/ /\ key_le(kr.left, range.left)
       /\ \/ kr.right.unbounded
          \/ ~range.right.unbounded /\ key_le(range.right.key, kr.right.key)

\* What the rdb_backfill_callback_t is handed: on_delete_range(range),
\* on_deletion(key, recency) or on_keyvalue(atom).
DeleteRangeEvent(range) == [NoEvent EXCEPT !.type = "delete_range", !.range = range]
DeletionEvent(key, recency) ==
    [NoEvent EXCEPT !.type = "deletion", !.key = key, !.recency = recency]
KeyvalueEvent(key, value, recency) ==
    [NoEvent EXCEPT !.type = "keyvalue", !.key = key, !.value = value,
                    !.recency = recency]

\* rassert: the call goes on where the condition holds and is aborted
\* where it fails.
rassert(cond, bf, event) ==
    IF cond THEN [bf EXCEPT !.handed = event, !.events = Append(@, event)]
    ELSE [bf EXCEPT !.handed = event, !.pc = "aborted"]

\* on_delete_range, lines 93-96.
on_delete_range(bf, range) ==
    rassert(is_superset(bf.range, range), bf, DeleteRangeEvent(range))

\* on_deletion forwarding whatever it is handed.
on_deletion_unchecked(bf, key, recency) ==
    rassert(TRUE, bf, DeletionEvent(key, recency))

\* on_deletion, lines 98-101.
on_deletion(bf, key, recency) ==
    rassert(contains_key(bf.range, key), bf, DeletionEvent(key, recency))

\* on_pair leaving the atom's recency unassigned.
on_pair_without_recency(bf, bl, recency, key, value) ==
    rassert(contains_key(bf.range, key), bf,
            KeyvalueEvent(key, get_data(bl, value), 0))

\* on_pair, lines 103-112.
on_pair(bf, bl, recency, key, value) ==
    rassert(contains_key(bf.range, key), bf,
            KeyvalueEvent(key, get_data(bl, value), recency))

\* do_agnostic_btree_backfill: the entries of the range in ascending key
\* order; a deletion marker no older than since_when goes to on_deletion,
\* a live entry no older than since_when to on_pair.
RECURSIVE do_agnostic_btree_backfill(_, _, _, _)
do_agnostic_btree_backfill(bf, lf, bl, ks) ==
    IF ks = {} \/ bf.pc = "aborted" THEN bf
    ELSE LET k == CHOOSE x \in ks : \A q \in ks : key_le(x, q)
             e == lf[k]
             next == IF e.recency < bf.since THEN bf
                     ELSE IF e.tomb THEN on_deletion(bf, k, e.recency)
                     ELSE IF e.value.has
                          THEN on_pair(bf, bl, e.recency, k, e.value)
                          ELSE bf
         IN  do_agnostic_btree_backfill(next, lf, bl, ks \ {k})

\* rdb_backfill, lines 118-123, as one call.
rdb_backfill(key_range, since_when) ==
    /\ LET agnostic_cb == [IdleBackfill EXCEPT !.pc = "running",
                                               !.range = key_range,
                                               !.since = since_when]
           done == do_agnostic_btree_backfill(agnostic_cb, leaf, blobs,
                       {k \in Key : contains_key(key_range, k)})
       IN  backfill' = [done EXCEPT !.pc = IF @ = "aborted" THEN @ ELSE "done"]
    /\ UNCHANGED <<leaf, blobs, now, resp, conc_vars, scan_vars>>

\* Sets and deletes in any order, and one backfill at any point of them.
NextBackfill ==
    \/ \E k \in Key, d \in Document : rdb_set(k, d)
    \/ \E k \in Key : rdb_delete(k)
    \/ /\ backfill.pc = "idle"
       /\ \E r \in KeyRange, since \in 0..(MaxTime + 1) : rdb_backfill(r, since)

SpecBackfill == Init /\ [][NextBackfill]_vars

\* C12: a backfill hands its callback exactly one keyvalue atom (key,
\* current document, recency) for each live key of the range with recency
\* >= since and one deletion for each key of the range deleted with
\* recency >= since; a key whose last mutation is older gets nothing.
C12_Backfill ==
    [][backfill' # backfill =>
          LET ev == backfill'.events
              keyvalues == {KeyvalueEvent(k, Got(k).doc, leaf[k].recency) :
                              k \in {q \in Key :
                                       /\ contains_key(backfill'.range, q)
                                       /\ leaf[q].value.has
                                       /\ leaf[q].recency >= backfill'.since}}
              deletions == {DeletionEvent(k, leaf[k].recency) :
                              k \in {q \in Key :
                                       /\ contains_key(backfill'.range, q)
                                       /\ leaf[q].tomb
                                       /\ leaf[q].recency >= backfill'.since}}
          IN  /\ backfill'.pc = "done"
              /\ {ev[i] : i \in 1..Len(ev)} = keyvalues \cup deletions
              /\ Len(ev) = Cardinality(keyvalues \cup deletions)]_vars

\* A backfill has passed over a live key of the range older than since and
\* handed over a newer one.
C12_Witness ==
    /\ backfill.pc = "done" /\ backfill.since = 1
    /\ Len(backfill.events) = 1
    /\ \E k \in Key : /\ contains_key(backfill.range, k)
                      /\ leaf[k].value.has /\ leaf[k].recency < backfill.since

\* A backfill has handed over a deletion.
C12_WitnessDeletion ==
    /\ backfill.pc = "done"
    /\ \E i \in 1..Len(backfill.events) : backfill.events[i].type = "deletion"

\* The callback under a traversal that hands it any event at all.
rdb_backfill_begin(key_range) ==
    /\ backfill.pc = "idle"
    /\ backfill' = [IdleBackfill EXCEPT !.pc = "running", !.range = key_range]
    /\ UNCHANGED <<leaf, blobs, now, resp, conc_vars, scan_vars>>

traversal_on_delete_range(range) ==
    /\ backfill' = on_delete_range(backfill, range)
    /\ UNCHANGED <<leaf, blobs, now, resp, conc_vars, scan_vars>>

traversal_on_deletion(key, recency) ==
    /\ backfill' = on_deletion(backfill, key, recency)
    /\ UNCHANGED <<leaf, blobs, now, resp, conc_vars, scan_vars>>

traversal_on_pair(key) ==
    /\ leaf[key].value.has
    /\ backfill' = on_pair(backfill, blobs, leaf[key].recency, key,
                           leaf[key].value)
    /\ UNCHANGED <<leaf, blobs, now, resp, conc_vars, scan_vars>>

rdb_backfill_end ==
    /\ backfill.pc = "running"
    /\ backfill' = [backfill EXCEPT !.pc = "done"]
    /\ UNCHANGED <<leaf, blobs, now, resp, conc_vars, scan_vars>>

\* The traversal is under way and has not handed over its last event.
traversal_running ==
    backfill.pc = "running" /\ Len(backfill.events) < MaxEvents

NextBackfillCallback ==
    \/ \E r \in KeyRange : rdb_backfill_begin(r)
    \/ traversal_running /\ \E r \in KeyRange : traversal_on_delete_range(r)
    \/ traversal_running
           /\ \E k \in Key, t \in Timestamp : traversal_on_deletion(k, t)
    \/ traversal_running /\ \E k \in Key : traversal_on_pair(k)
    \/ rdb_backfill_end

SpecBackfillCallback == InitRget /\ [][NextBackfillCallback]_vars

\* The keys of an event lie in the range r.
EventWithin(e, r) ==
    IF e.type = "delete_range"
    THEN \A k \in Key : contains_key(e.range, k) => contains_key(r, k)
    ELSE contains_key(r, e.key)

\* C13: every call the user callback gets carries a key or a range within
\* the requested range; an event outside it is not forwarded and aborts
\* the call.
C13_CallbackWithinRange ==
    /\ \A i \in 1..Len(backfill.events) :
           EventWithin(backfill.events[i], backfill.range)
    /\ (backfill.handed # NoEvent
        /\ ~EventWithin(backfill.handed, backfill.range))
       => backfill.pc = "aborted"

\* The callback has forwarded an event and was then handed a key outside
\* the range.
C13_Witness ==
    /\ backfill.pc = "aborted" /\ Len(backfill.events) = 1
    /\ backfill.handed.type = "deletion"
    /\ ~contains_key(backfill.range, backfill.handed.key)

(***************************************************************************)
(* The terminals and the stream of a scan.                                 *)
(***************************************************************************)
\* C14: with the Reduce terminal the first document of the scan becomes
\* the accumulator without the body being evaluated on an empty one, and
\* the accumulator returned is the fold of the body over the later
\* documents of the whole scan, in order.
C14_Reduce ==
    callback.terminal.kind = "reduce" =>
        /\ rget.pc # "crashed"
        /\ (rget.pc = "done" /\ ScanDocs # <<>>) =>
               rget.response.result.atom =
                   [null |-> FALSE,
                    val |-> FoldBody(callback.terminal.body, ScanDocs[1],
                                     Tail(ScanDocs), 1)]

\* C14, the returned accumulator alone, for the scans that return.
C14_ReduceReturned ==
    (/\ rget.pc = "done" /\ callback.terminal.kind = "reduce"
     /\ ScanDocs # <<>>)
    => rget.response.result.atom =
           [null |-> FALSE,
            val |-> FoldBody(callback.terminal.body, ScanDocs[1],
                             Tail(ScanDocs), 1)]

\* C15: in a scan without terminal the running size estimate is the
\* per-document estimate times the number of documents appended to the
\* stream so far, for any pipeline.
C15_EstimatePerDocument ==
    (callback.terminal = NoTerminal /\ rget.pc \in {"traversal", "done"})
    => callback.cumulative_size =
           estimate_rget_response_size(<<>>)
               * Len(callback.response.result.stream)

\* What the estimate counts instead: the entries visited.
C15_EstimatePerEntry ==
    (callback.terminal = NoTerminal /\ rget.pc \in {"traversal", "done"})
    => callback.cumulative_size =
           estimate_rget_response_size(<<>>) * Len(rget.visited)

\* The callback's answer on the entry just visited, as the traversal takes
\* it: go on, or stop.
Visits == Len(rget'.visited) > Len(rget.visited)

\* C16: with a terminal the callback answers continue on every entry;
\* without one it answers continue exactly when the stream is shorter than
\* the maximum and the estimate below the budget; no entry is visited
\* after a stop.
C16_ContinueOrStop ==
    [][Visits =>
          /\ rget.continue
          /\ IF callback.terminal # NoTerminal
             THEN rget'.continue
             ELSE rget'.continue <=>
                      /\ Len(callback'.response.result.stream) < callback.maximum
                      /\ callback'.cumulative_size < rget_max_chunk_size]_vars

\* C16 for the calls of handle_pair that return.
C16_ContinueOrStopOnReturn ==
    [][(Visits /\ rget'.pc # "crashed") =>
          /\ rget.continue
          /\ IF callback.terminal # NoTerminal
             THEN rget'.continue
             ELSE rget'.continue <=>
                      /\ Len(callback'.response.result.stream) < callback.maximum
                      /\ callback'.cumulative_size < rget_max_chunk_size]_vars

\* C16: a scan with a terminal that returns has visited every entry of the
\* range, whatever the maximum and the budget.
C16_TerminalVisitsAll ==
    (rget.pc = "done" /\ callback.terminal # NoTerminal)
    => /\ Remaining(rget) = {}
       /\ \A k \in Key : contains_key(rget.range, k) /\ leaf[k].value.has
              => \E i \in 1..Len(rget.visited) : rget.visited[i] = k

(***************************************************************************)
(* The range filter.                                                       *)
(***************************************************************************)
\* Builtin_Range steps: each bound absent or a value.
RangeStep ==
    [kind : {"range"}, arg : {"attr"},
     has_lowerbound : BOOLEAN, lowerbound : 0..(MaxVal + 1),
     has_upperbound : BOOLEAN, upperbound : 0..(MaxVal + 1)]

RangeFilter ==
    {r \in RangeStep : /\ ~r.has_lowerbound => r.lowerbound = 0
                       /\ ~r.has_upperbound => r.upperbound = 0}

NextRange ==
    \/ /\ rget.pc = "idle"
       /\ \E r \in KeyRange, m \in 0..MaxCount, f \in RangeFilter :
              rdb_rget_slice(r, m, <<f>>, NoTerminal)
    \/ handle_pair
    \/ rdb_rget_slice_return

SpecRange == InitRget /\ [][NextRange]_vars

\* The range filter lets the document through: it has the attribute and
\* the attribute's value is within the bounds that are there, inclusive.
WithinBounds(step, doc) ==
    /\ doc # <<>>
    /\ step.has_lowerbound => step.lowerbound <= doc[1]
    /\ step.has_upperbound => doc[1] <= step.upperbound

\* C17: a range filter puts out the document iff it has the attribute and
\* the value is within the bounds, both inclusive, an absent bound being no
\* bound; with no bound every document with the attribute comes out.
C17_RangeFilter ==
    [][(Visits /\ callback.transform[1].kind = "range") =>
          LET key == rget'.visited[Len(rget'.visited)]
              doc == get_data(blobs, leaf[key].value)
          IN  callback'.response.result.stream =
                  callback.response.result.stream
                      \o IF WithinBounds(callback.transform[1], doc)
                         THEN <<doc>> ELSE <<>>]_vars

\* C17 for the filters with a bound, where the call returns.
C17_RangeFilterWithBound ==
    [][(/\ Visits /\ rget'.pc # "crashed"
        /\ callback.transform[1].kind = "range"
        /\ callback.transform[1].has_lowerbound
               \/ callback.transform[1].has_upperbound) =>
          LET key == rget'.visited[Len(rget'.visited)]
              doc == get_data(blobs, leaf[key].value)
          IN  callback'.response.result.stream =
                  callback.response.result.stream
                      \o IF WithinBounds(callback.transform[1], doc)
                         THEN <<doc>> ELSE <<>>]_vars

\* C17 for the filter without bounds: what comes out is nothing.
C17_RangeFilterWithoutBound ==
    (/\ rget.pc \in {"traversal", "done"} /\ callback.terminal = NoTerminal
     /\ Len(callback.transform) = 1 /\ callback.transform[1].kind = "range"
     /\ ~callback.transform[1].has_lowerbound
     /\ ~callback.transform[1].has_upperbound)
    => callback.response.result.stream = <<>>

\* C18: at every point of a scan last_considered_key is the greatest key
\* among the entries visited so far, the key of the entry visited last,
\* also where that entry's documents were all filtered out or the scan
\* stopped on it; the response returned carries it.
C18_LastConsideredKey ==
    (rget.pc # "idle" /\ rget.visited # <<>>) =>
        LET last == callback.response.last_considered_key IN
        /\ last = rget.visited[Len(rget.visited)]
        /\ \A i \in 1..Len(rget.visited) : key_le(rget.visited[i], last)
        /\ rget.pc = "done" => rget.response.last_considered_key = last

\* C18: last_considered_key never decreases.
C18_NeverDecreases ==
    [][rget.pc = "traversal" =>
          key_le(callback.response.last_considered_key,
                 callback'.response.last_considered_key)]_vars

\* A scan has returned after an entry whose documents were all filtered
\* out.
C18_Witness ==
    /\ rget.pc = "done" /\ Len(rget.visited) = 2
    /\ Emitted(rget.visited[2]) = <<>>
    /\ rget.response.last_considered_key = rget.visited[2]
    /\ rget.response.last_considered_key # <<>>

(***************************************************************************)
(* Value storage.                                                          *)
(***************************************************************************)
\* The regions allocated and not cleared that no entry of the leaf refers
\* to.
Orphans(lf, bl) ==
    {i \in 1..Len(bl) :
        /\ bl[i].live
        /\ ~\E k \in Key : lf[k].value.has /\ lf[k].value.ref = i}

\* C19: every region a set allocated is referred to by the entry of a live
\* key or has been cleared; a set over an existing key leaves no allocated,
\* uncleared region of the value it replaced.
C19_ValueStorage == Orphans(leaf, blobs) = {}

\* C19 for delete and erase_range: neither leaves a region behind.
C19_DeleteAndEraseClear ==
    [][resp'.op \in {"delete", "erase_range"} =>
          Orphans(leaf', blobs') \subseteq Orphans(leaf, blobs)]_vars

\* C19 for the sets of keys that hold no value.
C19_FirstSetKeepsAccount ==
    [][(resp'.op = "set" /\ now' # now /\ ~leaf[resp'.key].value.has) =>
          Orphans(leaf', blobs') \subseteq Orphans(leaf, blobs)]_vars

\* C20: in a scan without terminal the stream is not empty where
\* handle_pair reads its last element to update the estimate, for every
\* pipeline and every sequence of entries.
C20_StreamNotEmptyOnBack ==
    [][(Visits /\ callback.terminal = NoTerminal) =>
          callback.response.result.stream
              \o Emitted(rget'.visited[Len(rget'.visited)]) # <<>>]_vars

\* C20 for the scans without transform.
C20_StreamNotEmptyWithoutTransform ==
    [][(Visits /\ callback.terminal = NoTerminal /\ callback.transform = <<>>)
       => callback'.response.result.stream # <<>>]_vars
====
